---------------------------- MODULE Spec2Model ----------------------------
(***************************************************************************)
(* Model of the Discord message archiver (src/main.py): the orchestrator   *)
(* loop of main(), retrieve_messages(), save_messages_to_file(), the       *)
(* checkpoint file helpers and the image download call.                    *)
(*                                                                         *)
(* Disk state and the remote feed persist across runs of the program; the  *)
(* locals of main()/retrieve_messages() live for one run.  A run ends by   *)
(* returning from main(), by exit(1), by an uncaught exception or by the   *)
(* process being killed.                                                   *)
(*                                                                         *)
(* The viewer (src/nw47-offsite-discord.py) is modelled by its parser of   *)
(* the log lines and by its lazy image loading: the labels of the layout,  *)
(* the scroll handler and the loader threads.                              *)
(***************************************************************************)
EXTENDS Integers, Sequences, FiniteSets, TLC

(* ------------------------------ bounds --------------------------------- *)
NumChannels == 2        \* entries of CHANNELS that are modelled
MaxArrivals == 4        \* messages ever posted, over all channels
MaxRuns     == 3        \* invocations of the program
PageLimit   == 2        \* the limit= of the page request, scaled down
MaxTs       == 2        \* distinct timestamps of the messages of SpecFeed
MaxFeed     == 3        \* messages ever posted in SpecFeed
MaxText     == 2        \* messages ever posted in SpecText
MaxPlaceholders == 2    \* image labels the viewer ever creates
MaxLoaders  == 3        \* loader threads the viewer ever starts

(* ------------------------ program constants ---------------------------- *)
DownloadParams   == 2   \* positional parameters download_image accepts
DownloadCallArgs == 3   \* positional arguments retrieve_messages passes

Channels   == 1..NumChannels
\* attachment of a message: none, an image URL the CDN serves, an image
\* URL whose download fails (non-200 or transport error)
ImgKinds   == {"none", "img_ok", "img_fail"}
None       == <<>>      \* None, and also '' (both falsy at line 202)
\* the timestamp string of a message: one that parse_timestamp accepts, or
\* one that matches neither of its two formats
Shapes     == {"ok", "bad_ts"}
\* Strings are sequences of pieces: "a" stands for any text without the
\* separators of the log format, the other pieces are the separators.
Plain      == <<"a">>
\* author.username of a message
Authors    == {Plain, <<"a", ": ", "a">>}
\* content of a message: '' (a message that only carries an attachment),
\* plain text, text with a line break, text that quotes an image line
Contents   == {<<>>, Plain, <<"a", "\n", "a">>,
               <<"a", " shared an image", ": ", "a">>}

VARIABLES
    (* remote *)
    feed,            \* feed[ch]: messages of the channel, id = index
    (* disk *)
    folders,         \* backups/<ch>/ and backups/<ch>/images/ exist
    logFile,         \* backups/<ch>/<ch>_messages.txt, a sequence of lines
    images,          \* files in backups/<ch>/images/, named by message id
    ckptDir,         \* the directory <ch>/ of the checkpoint path exists
    ckptFile,        \* <ch>/last_message_id.txt
    scriptLog,       \* backups/<ch>/logs/script.log: the channels, or 0
                     \* for the token check, its records were logged for
    (* one run of the program *)
    pc, chan, last_message_id, messages, wi, num,
    rootHandler,     \* the handler of the root logger of the process
    (* history *)
    runs, token, endReason, visited, lastFetch, lastPage, appended,
    committed, high, quiet, resume, ckptAtStart, interrupted,
    clean,           \* no run has ended other than by main() returning
    (* viewer *)
    placeholders,    \* the image labels create_image_placeholder has made
    running_threads  \* the ImageLoaderThreads load_image_async has started

disk  == <<folders, logFile, images, ckptDir, ckptFile, scriptLog>>
local == <<pc, chan, last_message_id, messages, wi, num, rootHandler>>
hist  == <<runs, token, endReason, visited, lastFetch, lastPage, appended,
           committed, high, quiet, resume, ckptAtStart, interrupted, clean>>
view  == <<placeholders, running_threads>>
vars  == <<feed, disk, local, hist, view>>

NoCkpt   == [present |-> FALSE, text |-> None]
NoCrash  == [set |-> FALSE, cursor |-> None, page |-> <<>>]
\* handlers of the root logger: none yet, the stream handler of stderr, the
\* file handler of backups/<ch>/logs/script.log
NoHandler       == [kind |-> "none", ch |-> 0]
StderrHandler   == [kind |-> "stderr", ch |-> 0]
FileHandler(ch) == [kind |-> "file", ch |-> ch]

Max(a, b) == IF a > b THEN a ELSE b
Min(a, b) == IF a < b THEN a ELSE b
Range(s)  == {s[i] : i \in DOMAIN s}
Arrived   == LET RECURSIVE Sum(_)
                 Sum(c) == IF c = 0 THEN 0 ELSE Len(feed[c]) + Sum(c - 1)
             IN  Sum(NumChannels)

(* ------------------------- pure functions ------------------------------ *)

RemotePageFromCursor(ch, after) ==
    LET n  == Len(feed[ch])
        lo == IF after = None THEN Max(1, n - PageLimit + 1) ELSE after[1]
        hi == IF after = None THEN n ELSE Min(n, after[1] + PageLimit - 1)
    IN  IF hi < lo THEN <<>> ELSE [i \in 1..(hi - lo + 1) |-> hi - i + 1]

\* GET .../messages?limit=100[&after=<id>]: at most PageLimit messages,
\* newest first; with after, the ones that directly follow the cursor,
\* without it the most recent ones.
RemotePage(ch, after) ==
    LET n  == Len(feed[ch])
        lo == IF after = None THEN Max(1, n - PageLimit + 1) ELSE after[1] + 1
        hi == IF after = None THEN n ELSE Min(n, after[1] + PageLimit)
    IN  IF hi < lo THEN <<>> ELSE [i \in 1..(hi - lo + 1) |-> hi - i + 1]

\* load_last_message_id: the stripped content, None if the file is missing
LoadLastMessageId(ch) ==
    IF ckptFile[ch].present THEN ckptFile[ch].text ELSE None

SortedOldestFirst(ch, msgs) ==
    LET ts(i)   == feed[ch][msgs[i]].ts
        rank(i) == 1 + Cardinality({j \in DOMAIN msgs :
                        ts(j) < ts(i) \/ (ts(j) = ts(i) /\ j < i)})
    IN  [k \in DOMAIN msgs |-> msgs[CHOOSE i \in DOMAIN msgs : rank(i) = k]]

\* sorted(messages, key=timestamp, reverse=True): stable, newest first
SortedByTime(ch, msgs) ==
    LET ts(i)   == feed[ch][msgs[i]].ts
        rank(i) == 1 + Cardinality({j \in DOMAIN msgs :
                        ts(j) > ts(i) \/ (ts(j) = ts(i) /\ j < i)})
    IN  [k \in DOMAIN msgs |-> msgs[CHOOSE i \in DOMAIN msgs : rank(i) = k]]

LinesForWithImage(ch, m) ==
    <<[id |-> m, kind |-> "text"]>> \o
    (IF feed[ch][m].img = "none" THEN <<>> ELSE <<[id |-> m, kind |-> "image"]>>)

\* the body of the loop of save_messages_to_file: one line per message
LinesFor(ch, m) == <<[id |-> m, kind |-> "text"]>>

CursorOfLast(msgs) == msgs[Len(msgs)]

\* the id handed to save_last_message_id: messages[0]['id']
Cursor(msgs) == msgs[1]

\* valid_image_url(attachment['url']) / embed['image']['url']
HasImage(ch, m) == feed[ch][m].img # "none"

\* download_image(url, images_folder, filename) against
\* download_image(url, images_path=""): the call raises TypeError
ImageCallRaises == DownloadCallArgs > DownloadParams

AfterPageCommitEmpty(msgs) == IF msgs = <<>> THEN "commit" ELSE "append"

AfterPageCommitFirst(msgs) == IF msgs = <<>> THEN "sleep" ELSE "commit"

\* lines 210-211, 245-246: a non-empty page goes to save_messages_to_file
AfterPage(msgs) == IF msgs = <<>> THEN "sleep" ELSE "append"

PageRequestNoAfter(lmi) == [limit |-> PageLimit, after |-> None]

\* lines 201-203: limit=100 and, if last_message_id is truthy, after=<id>
PageRequest(lmi) == [limit |-> PageLimit, after |-> lmi]

StatusNotTransport(status) == status # "transport"

\* line 208: response.status_code == 200
StatusOk(status) == status = "ok"

OpenForWrite(log) == <<>>

\* line 129: open(filename, 'a') keeps what the file holds
OpenForAppend(log) == log

\* parse_timestamp raises ValueError when neither format matches
TimestampRaises(ch, m) == feed[ch][m].fmt = "bad_ts"

LogIds(ch) == {logFile[ch][i].id : i \in DOMAIN logFile[ch]}

\* logging.basicConfig(...): does nothing when the root logger already has
\* a handler
BasicConfig(handler, target) ==
    IF handler = NoHandler THEN target ELSE handler

LoggingCallKeeps(handler) == handler

\* logging.info(...) / logging.error(...): the module-level functions call
\* basicConfig() first when the root logger has no handler, which installs
\* the stream handler of stderr
LoggingCall(handler) == BasicConfig(handler, StderrHandler)

\* a record goes to the handler: a file handler appends to its script.log
LogTo(handler, who, log) ==
    IF handler.kind = "file"
    THEN [log EXCEPT ![handler.ch] = @ \cup {who}]
    ELSE log

\* lines 135-139: strftime of the parsed timestamp, or the sentinel of a
\* message without timestamp
FormattedTime(ch, m) ==
    IF feed[ch][m].ts = 0 THEN <<"Unknown time">> ELSE <<"t">>

\* line 141: f"[{formatted_time}] {author}: {content}\n"
FormatLine(ch, m) ==
    <<"[">> \o FormattedTime(ch, m) \o <<"] ">> \o feed[ch][m].author
        \o <<": ">> \o feed[ch][m].content \o <<"\n">>

\* the text of backups/<ch>/<ch>_messages.txt
FileText(ch) ==
    LET RECURSIVE Cat(_)
        Cat(n) == IF n = 0 THEN <<>>
                  ELSE Cat(n - 1) \o FormatLine(ch, logFile[ch][n].id)
    IN  Cat(Len(logFile[ch]))

(* ------------------------------ viewer --------------------------------- *)

\* parse_messages: "for line in f", each line with its line break
SplitLines(text) ==
    LET RECURSIVE Split(_)
        Split(t) ==
            IF t = <<>> THEN <<>>
            ELSE LET brk == {i \in DOMAIN t : t[i] = "\n"}
                     e   == IF brk = {} THEN Len(t)
                            ELSE CHOOSE i \in brk : \A k \in brk : i <= k
                 IN  <<SubSeq(t, 1, e)>> \o Split(SubSeq(t, e + 1, Len(t)))
    IN  Split(text)

\* the literal between the second and the third group of pattern_image
\* and of pattern_message
ImageSep   == <<" shared an image", ": ">>
MessageSep == <<": ">>

\* re.match of r'\[(.*?)\] (.*?)<sep>(.*)': the positions <<i, j>> of the
\* "] " and of the separator in every way the pattern matches at the
\* start of the line; "." does not match a line break
Matches(line, sep) ==
    {p \in (2..Len(line)) \X (3..Len(line)) :
        /\ line[1] = "["
        /\ line[p[1]] = "] "
        /\ p[2] > p[1]
        /\ p[2] + Len(sep) - 1 <= Len(line)
        /\ SubSeq(line, p[2], p[2] + Len(sep) - 1) = sep
        /\ \A k \in 2..(p[2] - 1) : line[k] # "\n"}

\* the match the regex engine returns: both groups are lazy, the first
\* one is extended last
FirstMatch(S) ==
    CHOOSE p \in S : \A q \in S :
        p[1] < q[1] \/ (p[1] = q[1] /\ p[2] <= q[2])

\* the greedy (.*) from position k: up to the line break
RestOfLine(line, k) ==
    LET brk == {i \in k..Len(line) : line[i] = "\n"}
        e   == IF brk = {} THEN Len(line)
               ELSE (CHOOSE i \in brk : \A j \in brk : i <= j) - 1
    IN  SubSeq(line, k, e)

NoMatch == [type |-> "none", timestamp |-> <<>>, username |-> <<>>,
            content |-> <<>>]

\* parse_line: pattern_image is tried first, then pattern_message
ParseLine(line) ==
    LET img == Matches(line, ImageSep)
        msg == Matches(line, MessageSep)
        Groups(type, p, sep) ==
            [type |-> type,
             timestamp |-> SubSeq(line, 2, p[1] - 1),
             username |-> SubSeq(line, p[1] + 1, p[2] - 1),
             content |-> RestOfLine(line, p[2] + Len(sep))]
    IN  IF img # {} THEN Groups("image", FirstMatch(img), ImageSep)
        ELSE IF msg # {} THEN Groups("text", FirstMatch(msg), MessageSep)
        ELSE NoMatch

(* ------------------------------ Init ----------------------------------- *)
Init ==
    /\ feed = [ch \in Channels |-> <<>>]
    /\ folders = [ch \in Channels |-> FALSE]
    /\ logFile = [ch \in Channels |-> <<>>]
    /\ images = [ch \in Channels |-> {}]
    /\ ckptDir \in [Channels -> BOOLEAN]
    /\ ckptFile = [ch \in Channels |-> NoCkpt]
    /\ scriptLog = [ch \in Channels |-> {}]
    /\ rootHandler = NoHandler /\ clean = TRUE
    /\ placeholders = <<>> /\ running_threads = <<>>
    /\ pc = "idle" /\ chan = 0 /\ last_message_id = None
    /\ messages = <<>> /\ wi = 0 /\ num = 0
    /\ runs = 0 /\ token = "none" /\ endReason = "none" /\ visited = {}
    /\ lastFetch = [ch \in Channels |-> "none"]
    /\ lastPage = [ch \in Channels |-> <<>>]
    /\ appended = [ch \in Channels |-> {}]
    /\ committed = [ch \in Channels |-> FALSE]
    /\ high = [ch \in Channels |-> 0]
    /\ quiet = [ch \in Channels |-> FALSE]
    /\ resume = [ch \in Channels |-> FALSE]
    /\ ckptAtStart = [ch \in Channels |-> NoCkpt]
    /\ interrupted = [ch \in Channels |-> NoCrash]

(* ----------------------------- actions --------------------------------- *)

\* The run ends: main() returns, exit(1), an uncaught exception, a kill.
\* A run that ends abnormally between the return of save_messages_to_file
\* and the call of save_last_message_id leaves an interrupted page.
End(reason) ==
    /\ pc' = "ended" /\ chan' = 0 /\ last_message_id' = None
    /\ messages' = <<>> /\ wi' = 0 /\ num' = 0
    /\ endReason' = reason
    /\ rootHandler' = NoHandler
    /\ clean' = (clean /\ reason = "completed")
    /\ interrupted' =
         IF pc \in {"process", "commit"}
         THEN [interrupted EXCEPT ![chan] =
                 [set |-> TRUE, cursor |-> last_message_id, page |-> messages]]
         ELSE interrupted

\* A message is posted to a channel: it gets the next id.
Post(ch, stamps, shapes, kinds, authors, contents) ==
    /\ pc = "idle"
    /\ \E t \in stamps, f \in shapes, k \in kinds,
          a \in authors, c \in contents :
         feed' = [feed EXCEPT ![ch] =
                    Append(@, [ts |-> t, fmt |-> f, img |-> k,
                               author |-> a, content |-> c])]
    /\ quiet' = [quiet EXCEPT ![ch] = FALSE]
    /\ UNCHANGED <<view, disk, local, runs, token, endReason, visited, lastFetch,
                   lastPage, appended, committed, high, resume, ckptAtStart,
                   interrupted, clean>>

\* A well-formed message is posted.  Its id is the next snowflake and its
\* timestamp is the creation time the snowflake encodes, so timestamps
\* grow with ids.  The program reads the feed only in Fetch, so posting
\* between runs covers posting during one.
Arrive(ch) ==
    /\ Arrived < MaxArrivals
    /\ Post(ch, {Len(feed[ch]) + 1}, {"ok"}, ImgKinds, {Plain}, {Plain})

\* A message object of any shape is returned for the channel: its
\* timestamp is any of MaxTs instants, is missing (0) or is malformed.
ArriveAny(ch) ==
    /\ Arrived < MaxFeed
    /\ Post(ch, 0..MaxTs, Shapes, {"none"}, {Plain}, {Plain})

\* A message with any username and any content is posted, also one whose
\* content is empty.
ArriveText(ch) ==
    /\ Arrived < MaxText
    /\ Post(ch, {Len(feed[ch]) + 1}, {"ok"}, {"none"}, Authors, Contents)

\* python main.py
StartRun ==
    /\ pc = "idle" /\ runs < MaxRuns
    /\ pc' = "check_token" /\ runs' = runs + 1
    /\ resume' = quiet
    /\ quiet' = [ch \in Channels |-> FALSE]
    /\ ckptAtStart' = ckptFile
    /\ UNCHANGED <<view, feed, disk, chan, last_message_id, messages, wi, num,
                   rootHandler, token, endReason, visited, lastFetch,
                   lastPage, appended, committed, high, interrupted, clean>>

\* The process is gone.  What the run did is forgotten, except whether
\* each channel was fetched successfully by a run that completed.
Exit ==
    /\ pc = "ended"
    /\ pc' = "idle"
    /\ quiet' = [ch \in Channels |->
                   /\ endReason = "completed"
                   /\ lastFetch[ch] \in {"page", "empty"}]
    /\ endReason' = "none"
    /\ token' = "none"
    /\ visited' = {}
    /\ lastFetch' = [ch \in Channels |-> "none"]
    /\ lastPage' = [ch \in Channels |-> <<>>]
    /\ appended' = [ch \in Channels |-> {}]
    /\ committed' = [ch \in Channels |-> FALSE]
    /\ resume' = [ch \in Channels |-> FALSE]
    /\ ckptAtStart' = [ch \in Channels |-> NoCkpt]
    /\ UNCHANGED <<view, feed, disk, chan, last_message_id, messages, wi, num,
                   rootHandler, runs, high, interrupted, clean>>

TokenNotRejected(r) == r # "transport"

\* check_token line 93: response.status_code == 200
TokenValid(r) == r = "ok"

\* main lines 254-256 with check_token
CheckToken ==
    /\ pc = "check_token"
    /\ \E r \in {"ok", "unauthorized", "transport"} :
         /\ token' = r
         /\ CASE r = "transport" ->
                   /\ End("token_transport")
                   /\ UNCHANGED scriptLog
              [] r # "transport" /\ TokenValid(r) ->
                   /\ pc' = "loop" /\ chan' = 1
                   /\ rootHandler' = LoggingCall(rootHandler)
                   /\ scriptLog' = LogTo(rootHandler', chan, scriptLog)
                   /\ UNCHANGED <<last_message_id, messages, wi, num,
                                  endReason, interrupted, clean>>
              [] r # "transport" /\ ~TokenValid(r) ->
                   /\ End("exit")
                   /\ scriptLog' = LogTo(LoggingCall(rootHandler), chan, scriptLog)
    /\ UNCHANGED <<view, feed, folders, logFile, images, ckptDir, ckptFile, runs,
                   visited, lastFetch, lastPage, appended, committed, high,
                   quiet, resume, ckptAtStart>>

\* main lines 259-264: next entry of CHANNELS, create_channel_folder,
\* setup_logging with its basicConfig(filename=...), logging.info
LoopHead ==
    /\ pc = "loop"
    /\ IF chan > NumChannels
       THEN /\ End("completed")
            /\ UNCHANGED <<folders, visited, scriptLog>>
       ELSE /\ folders' = [folders EXCEPT ![chan] = TRUE]
            /\ visited' = visited \cup {chan}
            /\ rootHandler' =
                 LoggingCall(BasicConfig(rootHandler, FileHandler(chan)))
            /\ scriptLog' = LogTo(rootHandler', chan, scriptLog)
            /\ pc' = "load"
            /\ UNCHANGED <<chan, last_message_id, messages, wi, num,
                           endReason, interrupted, clean>>
    /\ UNCHANGED <<view, feed, logFile, images, ckptDir, ckptFile, runs, token, lastFetch,
                   lastPage, appended, committed, high, quiet, resume,
                   ckptAtStart>>

\* retrieve_messages lines 200-203 with load_last_message_id: the open or
\* the read of an existing file may raise an error other than
\* FileNotFoundError (permissions, a directory, undecodable bytes), which
\* lines 105-107 do not catch
Load ==
    /\ pc = "load"
    /\ \E readable \in IF ckptFile[chan].present THEN BOOLEAN ELSE {TRUE} :
         IF readable
         THEN /\ last_message_id' = LoadLastMessageId(chan)
              /\ pc' = "fetch"
              /\ UNCHANGED <<chan, messages, wi, num, rootHandler,
                             endReason, interrupted, clean>>
         ELSE End("read_error")
    /\ UNCHANGED <<view, feed, disk, runs, token, visited, lastFetch, lastPage,
                   appended, committed, high, quiet, resume, ckptAtStart>>

\* retrieve_messages lines 201-210 and 245-248; lastFetch records what the
\* server answered
Fetch ==
    /\ pc = "fetch"
    /\ \E status \in {"ok", "error", "transport"} :
         CASE status = "transport" ->
                /\ End("transport")
                /\ UNCHANGED <<lastFetch, lastPage, scriptLog>>
           [] status # "transport" /\ ~StatusOk(status) ->
                /\ pc' = "sleep"
                /\ lastFetch' = [lastFetch EXCEPT ![chan] = "failed"]
                /\ rootHandler' = LoggingCall(rootHandler)
                /\ scriptLog' = LogTo(rootHandler', chan, scriptLog)
                /\ UNCHANGED <<chan, last_message_id, messages, wi, num,
                               endReason, interrupted, clean, lastPage>>
           [] status # "transport" /\ StatusOk(status) ->
                LET page == RemotePage(chan, PageRequest(last_message_id).after)
                IN
                /\ messages' = page
                /\ pc' = AfterPage(page)
                /\ wi' = 1
                /\ lastFetch' = [lastFetch EXCEPT ![chan] =
                                   IF status = "error" THEN "failed"
                                   ELSE IF page = <<>> THEN "empty" ELSE "page"]
                /\ lastPage' = [lastPage EXCEPT ![chan] = page]
                /\ rootHandler' = IF page = <<>> THEN LoggingCall(rootHandler)
                                  ELSE rootHandler
                /\ scriptLog' = IF page = <<>>
                                THEN LogTo(rootHandler', chan, scriptLog)
                                ELSE scriptLog
                /\ UNCHANGED <<chan, last_message_id, num, endReason,
                               interrupted, clean>>
    /\ UNCHANGED <<view, feed, folders, logFile, images, ckptDir, ckptFile, runs,
                   token, visited, appended, committed, high, quiet, resume,
                   ckptAtStart>>

\* save_messages_to_file lines 126-142, one message of the sorted page:
\* the file is opened before the first one, it is closed and the function
\* returns after the last one; a ValueError of parse_timestamp leaves the
\* lines written so far
WriteLine ==
    /\ pc = "append"
    /\ LET m   == SortedByTime(chan, messages)[wi]
           log == IF wi = 1 THEN OpenForAppend(logFile[chan]) ELSE logFile[chan]
       IN  IF TimestampRaises(chan, m)
           THEN /\ logFile' = [logFile EXCEPT ![chan] = log]
                /\ End("value_error")
                /\ UNCHANGED <<appended, scriptLog>>
           ELSE /\ logFile' = [logFile EXCEPT ![chan] = log \o LinesFor(chan, m)]
                /\ appended' = [appended EXCEPT ![chan] = @ \cup {m}]
                /\ rootHandler' = LoggingCall(rootHandler)
                /\ scriptLog' = LogTo(rootHandler', chan, scriptLog)
                /\ IF wi = Len(messages)
                   THEN pc' = "process" /\ wi' = 0 /\ num' = 1
                   ELSE pc' = "append" /\ wi' = wi + 1 /\ num' = num
                /\ UNCHANGED <<chan, last_message_id, messages, endReason,
                               interrupted, clean>>
    /\ UNCHANGED <<view, feed, folders, images, ckptDir, ckptFile, runs, token,
                   visited, lastFetch, lastPage, committed, high, quiet, resume,
                   ckptAtStart>>

\* retrieve_messages lines 213-240, one message of the page
ProcessMessage ==
    /\ pc = "process"
    /\ LET m == messages[num] IN
         IF HasImage(chan, m) /\ ImageCallRaises
         THEN /\ End("type_error")
              /\ scriptLog' = LogTo(LoggingCall(rootHandler), chan, scriptLog)
              /\ UNCHANGED images
         ELSE /\ rootHandler' = LoggingCall(rootHandler)
              /\ scriptLog' = LogTo(rootHandler', chan, scriptLog)
              /\ images' = [images EXCEPT ![chan] =
                   IF HasImage(chan, m) /\ feed[chan][m].img = "img_ok"
                   THEN @ \cup {m} ELSE @]
              /\ IF num = Len(messages)
                 THEN pc' = "commit" /\ num' = 0
                 ELSE pc' = "process" /\ num' = num + 1
              /\ UNCHANGED <<chan, last_message_id, messages, wi, endReason,
                             interrupted, clean>>
    /\ UNCHANGED <<view, feed, folders, logFile, ckptDir, ckptFile, runs, token, visited,
                   lastFetch, lastPage, appended, committed, high, quiet,
                   resume, ckptAtStart>>

\* save_last_message_id line 111: open(path, 'w') truncates the file, or
\* raises FileNotFoundError when the directory of the path is missing
CommitOpen ==
    /\ pc = "commit"
    /\ IF ckptDir[chan]
       THEN /\ ckptFile' = [ckptFile EXCEPT ![chan] =
                              [present |-> TRUE, text |-> None]]
            /\ pc' = "commit_write"
            /\ UNCHANGED <<chan, last_message_id, messages, wi, num,
                           rootHandler, endReason, interrupted, clean>>
       ELSE /\ End("no_directory")
            /\ UNCHANGED ckptFile
    /\ UNCHANGED <<view, feed, folders, logFile, images, ckptDir, scriptLog, runs, token, visited,
                   lastFetch, lastPage, appended, committed, high, quiet,
                   resume, ckptAtStart>>

\* save_last_message_id line 112 and the close of the file, and the
\* logging.info of line 244
CommitWrite ==
    /\ pc = "commit_write"
    /\ ckptFile' = [ckptFile EXCEPT ![chan] =
                      [present |-> TRUE, text |-> <<Cursor(messages)>>]]
    /\ committed' = [committed EXCEPT ![chan] = TRUE]
    /\ high' = [high EXCEPT ![chan] = Max(@, Cursor(messages))]
    /\ pc' = "sleep"
    /\ rootHandler' = LoggingCall(rootHandler)
    /\ scriptLog' = LogTo(rootHandler', chan, scriptLog)
    /\ UNCHANGED <<view, feed, folders, logFile, images, ckptDir, chan,
                   last_message_id, messages, wi, num, runs, token, endReason,
                   visited, lastFetch, lastPage, appended, quiet, resume,
                   ckptAtStart, interrupted, clean>>

\* main line 268, retrieve_messages has returned
Sleep ==
    /\ pc = "sleep"
    /\ pc' = "loop" /\ chan' = chan + 1
    /\ last_message_id' = None /\ messages' = <<>> /\ wi' = 0 /\ num' = 0
    /\ interrupted' = [interrupted EXCEPT ![chan] = NoCrash]
    /\ UNCHANGED <<rootHandler, clean>>
    /\ UNCHANGED <<view, feed, disk, runs, token, endReason, visited, lastFetch, lastPage,
                   appended, committed, high, quiet, resume, ckptAtStart>>

\* the process is killed
Kill ==
    /\ pc \notin {"idle", "ended"}
    /\ End("killed")
    /\ UNCHANGED <<view, feed, disk, runs, token, visited, lastFetch, lastPage, appended,
                   committed, high, quiet, resume, ckptAtStart>>

Next ==
    \/ \E ch \in Channels : Arrive(ch)
    \/ StartRun
    \/ Exit
    \/ CheckToken
    \/ LoopHead
    \/ Load
    \/ Fetch
    \/ WriteLine
    \/ ProcessMessage
    \/ CommitOpen
    \/ CommitWrite
    \/ Sleep
    \/ Kill

Spec == Init /\ [][Next]_vars

\* The same program on pages whose messages carry any timestamps, also
\* missing and malformed ones.
NextFeed ==
    \/ \E ch \in Channels : ArriveAny(ch)
    \/ StartRun
    \/ Exit
    \/ CheckToken
    \/ LoopHead
    \/ Load
    \/ Fetch
    \/ WriteLine
    \/ ProcessMessage
    \/ CommitOpen
    \/ CommitWrite
    \/ Sleep
    \/ Kill

SpecFeed == Init /\ [][NextFeed]_vars

\* The same program on messages of any username and content.
NextText ==
    \/ \E ch \in Channels : ArriveText(ch)
    \/ StartRun
    \/ Exit
    \/ CheckToken
    \/ LoopHead
    \/ Load
    \/ Fetch
    \/ WriteLine
    \/ ProcessMessage
    \/ CommitOpen
    \/ CommitWrite
    \/ Sleep
    \/ Kill

SpecText == Init /\ [][NextText]_vars

(* --------------------------- viewer actions ---------------------------- *)

\* the labels on_scroll starts a loader for: the image labels of the
\* layout that are not visible (line 288)
NotVisible == {l \in DOMAIN placeholders :
                  placeholders[l].inLayout /\ ~placeholders[l].visible}

\* display_channel: the widgets of the layout are removed, and every image
\* message of the channel gets a hidden label (create_image_placeholder);
\* files[i] tells whether the file of the i-th image loads as a pixmap
DisplayChannel ==
    /\ \E n \in 0..(MaxPlaceholders - Len(placeholders)) :
       \E files \in [1..n -> BOOLEAN] :
         placeholders' =
            [l \in DOMAIN placeholders |->
                [placeholders[l] EXCEPT !.inLayout = FALSE]]
            \o [i \in 1..n |->
                  [visible |-> FALSE, loadable |-> files[i], inLayout |-> TRUE]]
    /\ UNCHANGED <<running_threads, feed, disk, local, hist>>

\* on_scroll with load_image_async: unless the bar is at its maximum, one
\* new thread is started for every label that is not visible
OnScroll ==
    /\ Len(running_threads) + Cardinality(NotVisible) <= MaxLoaders
    /\ \E below \in BOOLEAN :
         LET RECURSIVE Started(_)
             Started(l) ==
                 IF l = 0 THEN <<>>
                 ELSE Started(l - 1) \o
                      (IF l \in NotVisible
                       THEN <<[label |-> l, state |-> "running"]>> ELSE <<>>)
         IN  running_threads' =
                 IF below THEN running_threads \o Started(Len(placeholders))
                 ELSE running_threads
    /\ UNCHANGED <<placeholders, feed, disk, local, hist>>

\* ImageLoaderThread.run: the signal is emitted unless the pixmap is null
LoaderRun(t) ==
    /\ running_threads[t].state = "running"
    /\ running_threads' = [running_threads EXCEPT ![t].state =
          IF placeholders[running_threads[t].label].loadable
          THEN "emitted" ELSE "finished"]
    /\ UNCHANGED <<placeholders, feed, disk, local, hist>>

\* set_image, the slot of image_loaded, run by the event loop
SetImage(t) ==
    /\ running_threads[t].state = "emitted"
    /\ placeholders' =
          [placeholders EXCEPT ![running_threads[t].label].visible = TRUE]
    /\ running_threads' = [running_threads EXCEPT ![t].state = "finished"]
    /\ UNCHANGED <<feed, disk, local, hist>>

NextViewer ==
    \/ DisplayChannel
    \/ OnScroll
    \/ \E t \in DOMAIN running_threads : LoaderRun(t)
    \/ \E t \in DOMAIN running_threads : SetImage(t)

SpecViewer == Init /\ [][NextViewer]_vars

TypeOK ==
    /\ pc \in {"idle", "ended", "check_token", "loop", "load", "fetch", "append",
               "process", "commit", "commit_write", "sleep"}
    /\ \A ch \in Channels : Len(feed[ch]) <= Max(MaxArrivals, MaxFeed)
    /\ runs \in 0..MaxRuns
(* ------------------------------ claims --------------------------------- *)

CkptId(ch) == ckptFile[ch].text

\* C1: a checkpoint file that holds message id m is only ever seen when a
\* line of m is in the log of that channel, and save_last_message_id runs
\* only after every message of the page was appended by this run.
CheckpointAfterDurability ==
    /\ \A ch \in Channels :
         CkptId(ch) # None => CkptId(ch)[1] \in LogIds(ch)
    /\ pc \in {"commit", "commit_write"} => Range(messages) \subseteq appended[chan]

\* a page of two messages was appended and its cursor committed
CheckpointCommittedWitness ==
    \E ch \in Channels :
        /\ committed[ch] /\ Len(lastPage[ch]) = 2
        /\ CkptId(ch) # None /\ CkptId(ch)[1] \in appended[ch]

\* C2: a run that follows a completed run in which the channel was fetched
\* successfully, with no message posted in between, appends nothing to the
\* log of the channel and leaves its checkpoint file as it was.
IdempotentResume ==
    \A ch \in Channels :
        resume[ch] => appended[ch] = {} /\ ckptFile[ch] = ckptAtStart[ch]

CrashRecoveryLosesNothing ==
    \A ch \in Channels :
        (interrupted[ch].set /\ chan = ch) =>
            /\ pc \in {"fetch", "append", "process", "commit"} =>
                 last_message_id = interrupted[ch].cursor
            /\ (pc = "sleep" /\ lastFetch[ch] = "page") =>
                 \A m \in 1..Len(feed[ch]) :
                    (/\ \E o \in Range(interrupted[ch].page) : o <= m
                     /\ \E n \in Range(lastPage[ch]) : m <= n)
                    => m \in LogIds(ch)

\* C5: a run that hit a transport error on a page request has still called
\* retrieve_messages for every channel, and every other channel that had a
\* page has its checkpoint committed.
ChannelIsolation ==
    (pc = "ended" /\ endReason = "transport") =>
        \A ch \in Channels :
            /\ ch \in visited
            /\ lastFetch[ch] = "page" => committed[ch]

\* C6: reaching a message whose image download fails does not end the run:
\* unless the process is killed, the loop goes on to the next message or to
\* the commit of the page.
ImageFailureContained ==
    [][(/\ pc = "process"
        /\ feed[chan][messages[num]].img = "img_fail"
        /\ endReason' # "killed")
       => pc' \in {"process", "commit"}]_vars

\* C7: retrieve_messages returns only after an empty page or a failed
\* request, never directly after a non-empty page.
PaginationToExhaustion ==
    pc = "sleep" => lastFetch[chan] \in {"empty", "failed"}

\* C8: when the run of a channel ends, by return or by an exception, after
\* it appended messages, the checkpoint file holds the cursor of the page
\* it appended.
CommitOnTermination ==
    \A ch \in Channels :
        (/\ appended[ch] # {}
         /\ \/ pc = "sleep" /\ chan = ch
            \/ pc = "ended" /\ endReason \in {"type_error", "no_directory"})
        => (CkptId(ch) # None /\ CkptId(ch)[1] \in Range(lastPage[ch]))

\* C9: every downloaded image has exactly one image line; and the scenario:
\* a first run on a channel with no checkpoint whose page holds a message
\* without attachment and a newer one with one image the CDN serves ends
\* with three log lines, one image file and the newer id as checkpoint.
ImageLineScenario ==
    /\ \A ch \in Channels : \A m \in images[ch] :
         Cardinality({i \in DOMAIN logFile[ch] :
            logFile[ch][i] = [id |-> m, kind |-> "image"]}) = 1
    /\ (/\ pc = "ended" /\ runs = 1
        /\ endReason \in {"completed", "type_error", "no_directory"}
        /\ ckptDir[1] /\ lastFetch[1] = "page"
        /\ feed[1] = <<[ts |-> 1, fmt |-> "ok", img |-> "none",
                       author |-> Plain, content |-> Plain],
                      [ts |-> 2, fmt |-> "ok", img |-> "img_ok",
                       author |-> Plain, content |-> Plain]>>)
       => (/\ Len(logFile[1]) = 3
           /\ images[1] = {2}
           /\ CkptId(1) = <<2>>)

IsPrefix(a, b) == Len(a) <= Len(b) /\ SubSeq(b, 1, Len(a)) = a

\* the ids of the lines save_messages_to_file has written for the page
Written ==
    LET k == IF pc = "append" THEN wi - 1 ELSE Len(messages)
        n == Len(logFile[chan])
    IN  [i \in 1..k |-> logFile[chan][n - k + i].id]

PosInPage(m) == CHOOSE p \in DOMAIN messages : messages[p] = m

\* C11 as stated: the lines written for a page are in the relative order
\* of the messages in the page, whatever the timestamps.
LogOrderIsArrivalOrder ==
    pc \in {"append", "process"} =>
        \A i, j \in DOMAIN Written :
            i < j => PosInPage(Written[i]) < PosInPage(Written[j])

\* C11 amended: the lines written for a page are in the order of the
\* timestamps, newest first, messages of equal timestamp in the order of
\* the page.
LogOrderIsTimestampOrder ==
    pc \in {"append", "process"} =>
        \A i, j \in DOMAIN Written :
            i < j =>
              LET a == Written[i]
                  b == Written[j]
              IN  \/ feed[chan][a].ts > feed[chan][b].ts
                  \/ /\ feed[chan][a].ts = feed[chan][b].ts
                     /\ PosInPage(a) < PosInPage(b)

\* a page of two messages was written whose first message is the older one
ReorderedPageWitness ==
    /\ pc = "process" /\ Len(messages) = 2
    /\ feed[chan][messages[1]].ts < feed[chan][messages[2]].ts
    /\ Written = <<messages[2], messages[1]>>

\* C12: no step removes or changes a line of a log: the log before a step
\* is a prefix of the log after it.
AppendOnlyLog ==
    [][\A ch \in Channels : IsPrefix(logFile[ch], logFile'[ch])]_vars

\* a later run appended to a log that held the lines of an earlier page
LogGrewOverRunsWitness ==
    \E ch \in Channels :
        /\ runs >= 2 /\ appended[ch] # {}
        /\ Len(logFile[ch]) > Cardinality(appended[ch])

\* C13: a page request answered with a status other than 200 appends
\* nothing, leaves the checkpoint file and the images as they were, and the
\* loop of main goes on to the next channel.
NonSuccessContained ==
    /\ [](\A ch \in Channels :
            lastFetch[ch] = "failed" =>
                /\ appended[ch] = {} /\ ~committed[ch]
                /\ ckptFile[ch] = ckptAtStart[ch]
                /\ chan = ch => pc = "sleep")
    /\ [][/\ (pc = "fetch" /\ lastFetch'[chan] = "failed") => disk' = disk
          /\ (pc = "sleep" /\ lastFetch[chan] = "failed" /\ endReason' # "killed")
               => (pc' = "loop" /\ chan' = chan + 1)]_vars

\* the request of a channel that has messages failed and the loop is at
\* the next channel
FailedFetchWitness ==
    \E ch \in Channels :
        /\ lastFetch[ch] = "failed" /\ Len(feed[ch]) > 0
        /\ chan = ch + 1 /\ pc = "load"

\* C14: a page request answered with an empty page ends the run of the
\* channel with nothing appended and the disk, checkpoint included, as it
\* was.
EmptyPageChangesNothing ==
    /\ [](\A ch \in Channels :
            lastFetch[ch] = "empty" =>
                /\ appended[ch] = {} /\ ~committed[ch]
                /\ ckptFile[ch] = ckptAtStart[ch]
                /\ chan = ch => pc = "sleep")
    /\ [][(pc = "fetch" /\ lastFetch'[chan] = "empty") => disk' = disk]_vars

\* a channel with a committed checkpoint and a log got an empty page
EmptyPageWitness ==
    \E ch \in Channels :
        /\ lastFetch[ch] = "empty" /\ chan = ch /\ pc = "sleep"
        /\ CkptId(ch) # None /\ logFile[ch] # <<>>

RequestFollowsCheckpoint ==
    pc = "fetch" =>
        PageRequest(last_message_id) =
            [limit |-> PageLimit, after |-> CkptId(chan)]

\* a request is about to be sent for a channel that has a checkpoint
RequestWithAfterWitness ==
    pc = "fetch" /\ CkptId(chan) # None /\ last_message_id = CkptId(chan)

\* C18: a malformed field of a message never fails the page: no run ends
\* by the ValueError of a timestamp, and the messages of a page are all
\* written.
MalformedNeverFails ==
    /\ endReason # "value_error"
    /\ pc = "process" => Range(messages) \subseteq appended[chan]

\* C19: unless the token check succeeded, the run has prepared no channel,
\* sent no page request, appended no line and written no checkpoint; all
\* steps of the loop over the channels come after a successful check.
TokenGate ==
    /\ (pc \in {"check_token", "ended"} /\ token # "ok") =>
          /\ visited = {}
          /\ \A ch \in Channels :
                /\ appended[ch] = {} /\ lastFetch[ch] = "none"
                /\ ckptFile[ch] = ckptAtStart[ch]
    /\ pc \in {"loop", "load", "fetch", "append", "process", "commit",
               "commit_write", "sleep"} => token = "ok"

\* the token was rejected and the process exited while messages waited
TokenRejectedWitness ==
    pc = "ended" /\ endReason = "exit" /\ token = "unauthorized" /\ Arrived > 0

\* C20: the checkpoint file is in the folder create_channel_folder makes,
\* so once main has prepared a channel its checkpoint directory exists and
\* save_last_message_id does not fail for lack of it.
CheckpointInChannelFolder ==
    /\ pc \in {"commit", "commit_write"} => (folders[chan] /\ ckptDir[chan])
    /\ endReason # "no_directory"

\* C21: a text line is written for a message only when its content is not
\* empty: no log holds a text line of a message with empty content, and the
\* number of lines written for a page is the number of its messages with
\* non-empty content.
TextLineOnlyForText ==
    /\ \A ch \in Channels : \A i \in DOMAIN logFile[ch] :
         logFile[ch][i].kind = "text" =>
             feed[ch][logFile[ch][i].id].content # <<>>
    /\ pc = "process" =>
         Len(Written) = Cardinality({p \in DOMAIN messages :
                           feed[chan][messages[p]].content # <<>>})

\* C22: every record of a log is one line of the file, and parse_line of
\* that line gives a text message with the timestamp, the username and
\* the content that were written.
LogRoundTrip ==
    \A ch \in Channels :
        LET lines == SplitLines(FileText(ch)) IN
        /\ Len(lines) = Len(logFile[ch])
        /\ \A i \in DOMAIN logFile[ch] :
             LET m == logFile[ch][i].id IN
             ParseLine(lines[i]) =
                 [type |-> "text",
                  timestamp |-> FormattedTime(ch, m),
                  username |-> feed[ch][m].author,
                  content |-> feed[ch][m].content]

\* C23: whenever the checkpoint file of a channel holds id c, every message
\* of the channel with an id up to c has a line in the log.
NoGapBelowCheckpoint ==
    \A ch \in Channels :
        CkptId(ch) # None =>
            \A m \in 1..CkptId(ch)[1] : m \in LogIds(ch)

\* C24: as long as every run has ended by main() returning (no kill, no
\* exception, no exit), no log holds two lines of one message: a message
\* appended by one run is not appended again by a later one.
NoDuplicateArchival ==
    clean => \A ch \in Channels : \A i, j \in DOMAIN logFile[ch] :
                 i # j => logFile[ch][i].id # logFile[ch][j].id

\* two runs have completed and the second one appended a page to a log
\* that held the lines of the first
SecondCleanRunWitness ==
    \E ch \in Channels :
        /\ clean /\ runs >= 2 /\ pc = "ended" /\ endReason = "completed"
        /\ committed[ch] /\ appended[ch] # {}
        /\ LogIds(ch) \ appended[ch] # {}

\* C25: no step of the loop of main or of retrieve_messages for one
\* channel changes the folders, the log, the images, the checkpoint or
\* the script.log of another channel.
PerChannelFrame ==
    [][\A ch \in Channels :
          (chan \in Channels /\ ch # chan) =>
              /\ folders'[ch] = folders[ch]
              /\ logFile'[ch] = logFile[ch]
              /\ images'[ch] = images[ch]
              /\ ckptDir'[ch] = ckptDir[ch]
              /\ ckptFile'[ch] = ckptFile[ch]
              /\ scriptLog'[ch] = scriptLog[ch]]_vars

\* the second channel was processed up to its checkpoint while the first
\* one has a log and a checkpoint of its own
OtherChannelWitness ==
    /\ chan = 2 /\ pc = "sleep" /\ committed[2] /\ appended[2] # {}
    /\ logFile[1] # <<>> /\ CkptId(1) # None

\* C26: no image label ever has two loader threads, so the threads ever
\* started are at most as many as the image labels.
LoadsEachImageOnce ==
    /\ \A t, u \in DOMAIN running_threads :
          t # u => running_threads[t].label # running_threads[u].label
    /\ Len(running_threads) <= Len(placeholders)

=============================================================================
